---- MODULE Spec2Model ----
(***************************************************************************)
(* A model of server.py, the Flask quiz-score server: the records store    *)
(* (SQLite file or PostgreSQL), the request-scoped connection kept in      *)
(* flask.g, the two /api/scores handlers, the startup block and the        *)
(* teardown hook.                                                          *)
(*                                                                         *)
(* Slot 0 is the application context of the startup block                  *)
(* (`with app.app_context()`), slots 1..MaxThreads are request threads.    *)
(* The database outlives the process: it is kept across Stop/Start.        *)
(***************************************************************************)
EXTENDS Integers, Sequences, FiniteSets, TLC

VARIABLES
    DATABASE_URL,   \* TRUE iff the environment variable is set (line 21)
    psycopg2,       \* TRUE iff the import at line 9 succeeded, FALSE iff None
    proc,           \* "stopped" | "startup" | "serving" | "aborted"
    tableExists,    \* the records table exists in the database
    columns,        \* the dialect the table was created with, "none" if absent
    rows,           \* committed rows of records, in insertion order
    clock,          \* wall clock, in seconds
    pc,             \* per slot: position of the unit of work
    method,         \* per slot: what the unit of work serves
    data,           \* per slot: save_score's local data (request.json)
    g,              \* per slot: g._database (0 is None)
    db,             \* per slot: the handler's local db (0 is unset)
    timestamp,      \* per slot: save_score's local timestamp
    pending,        \* per slot: rows written in the open transaction
    resp,           \* per slot: the outcome of the handler
    open            \* the connections that are open

vars == <<DATABASE_URL, psycopg2, proc, tableExists, columns, rows,
          clock, pc, method, data, g, db, timestamp, pending, resp, open>>

config == <<DATABASE_URL, psycopg2>>
store == <<tableExists, columns, rows>>

\* ------------------------------------------------------------- bounds
MaxThreads == 2
MaxRows == 2
MaxTicks == 1

\* the wall clock when the model starts: one second before the minute turns
ClockStart == 60 - 1

None == 0
Slots == 0..MaxThreads
Threads == 1..MaxThreads

\* request bodies: accuracy in hundredths
Names == {"alice"}
Scores == {950}
Accuracies == {87}

ValidPayloads ==
    [kind : {"ok"}, user_name : Names, score : Scores, accuracy : Accuracies]

MalformedPayloads ==
    [kind : {"not_json", "missing_key", "null_field"},
     user_name : {"alice"}, score : Scores, accuracy : Accuracies]

Payloads == ValidPayloads \cup MalformedPayloads

NoPayload == [kind |-> "none", user_name |-> "", score |-> 0, accuracy |-> 0]

\* ------------------------------------------------------- timestamps
\* datetime.datetime.now(), of which the format keeps the whole seconds
Now == clock

\* strftime('... %M:%S'): fixed width, zero padded, most significant first
Strftime(t) ==
    LET m == (t \div 60) % 60
        s == t % 60
    IN  <<m \div 10, m % 10, s \div 10, s % 10>>

\* the engine's reading of the text as an instant
ParseTimestamp(d) == (d[1] * 10 + d[2]) * 60 + d[3] * 10 + d[4]

\* text comparison, as SQLite compares TEXT values
RECURSIVE LexLeq(_, _)
LexLeq(a, b) ==
    IF a = <<>> THEN TRUE
    ELSE IF b = <<>> THEN FALSE
    ELSE IF a[1] # b[1] THEN a[1] < b[1]
    ELSE LexLeq(Tail(a), Tail(b))

\* the value the date_time column holds: TEXT (SQLite) or TIMESTAMP (PostgreSQL)
StoreDateTime(ts) == IF DATABASE_URL THEN ParseTimestamp(ts) ELSE ts

\* the engine's ordering of two date_time column values
ColumnLeq(a, b) == IF DATABASE_URL THEN a <= b ELSE LexLeq(a, b)

\* the logical instant of a date_time column value
Instant(v) == IF DATABASE_URL THEN v ELSE ParseTimestamp(v)

\* ---------------------------------------------------------- responses
NoResp == [status |-> 0, kind |-> "none", detail |-> "", records |-> <<>>]

\* an exception that leaves the handler (Flask answers for it)
Raised(status, detail) ==
    [status |-> status, kind |-> "exception", detail |-> detail, records |-> <<>>]

\* jsonify({"error": f"Server error: {str(e)}"}), 500
ServerError(detail) ==
    [status |-> 500, kind |-> "error", detail |-> detail, records |-> <<>>]

\* jsonify({"message": "Record saved successfully!"}), 201
Saved ==
    [status |-> 201, kind |-> "message", detail |-> "Record saved successfully!",
     records |-> <<>>]

\* jsonify(records), 200
Listing(l) == [status |-> 200, kind |-> "list", detail |-> "", records |-> l]

\* what the exceptions say: a fault of the engine (no connection, a lost
\* connection, a locked database), the RuntimeError of get_db, the refusal of
\* a driver's connection object to take the attribute row_factory, a missing
\* table, a table that exists already
ConnectionLost == "OperationalError: connection"
DriverMissing == "RuntimeError: psycopg2 is not installed"
NoRowFactory == "AttributeError: row_factory"
NoSuchTable == "OperationalError: no such table"
TableExists == "OperationalError: table exists"

\* -------------------------------------------------------------- store
\* CREATE TABLE [IF NOT EXISTS] records (...) in the given dialect
ExecCreateTable(ifNotExists, dialect) ==
    IF tableExists
    THEN [error |-> IF ifNotExists THEN "" ELSE TableExists,
          tableExists |-> TRUE, columns |-> columns]
    ELSE [error |-> "", tableExists |-> TRUE, columns |-> dialect]

\* the statement init_db executes
InitDbStatementPlain == ExecCreateTable(FALSE, IF DATABASE_URL THEN "postgres" ELSE "sqlite")
InitDbStatement == ExecCreateTable(TRUE, IF DATABASE_URL THEN "postgres" ELSE "sqlite")

\* the parameter tuple of the INSERT
InsertParamsSwapped(d, ts) == <<d.user_name, d.accuracy, d.score, ts>>
InsertParams(d, ts) == <<d.user_name, d.score, d.accuracy, ts>>

\* the row INSERT INTO records (user_name, score, accuracy, date_time) writes
NewRow(params) ==
    [user_name |-> params[1], score |-> params[2], accuracy |-> params[3],
     date_time |-> StoreDateTime(params[4])]

\* what the INSERT raises ("" when it raises nothing)
InsertError(d, fault) ==
    IF d.kind = "missing_key" THEN "KeyError"
    ELSE IF fault THEN ConnectionLost
    ELSE IF ~tableExists THEN NoSuchTable
    ELSE IF d.kind = "null_field" THEN "IntegrityError: NOT NULL"
    ELSE ""

\* db.commit(): the transaction's rows become visible, with engine-assigned ids
Commit(rs, pend) ==
    IF pend = <<>> THEN rs
    ELSE Append(rs, [id |-> Len(rs) + 1, user_name |-> pend[1].user_name,
                     score |-> pend[1].score, accuracy |-> pend[1].accuracy,
                     date_time |-> pend[1].date_time])

\* SELECT user_name, score, accuracy, date_time: one row of the result
Entry(r) ==
    [user_name |-> r.user_name, score |-> r.score, accuracy |-> r.accuracy,
     date_time |-> r.date_time]

\* ORDER BY date_time DESC / ASC on two column values
OrderByAsc(a, b) == ColumnLeq(a, b)
OrderByDesc(a, b) == ColumnLeq(b, a)

\* the results the SELECT may return: every ordering of the rows that
\* respects ORDER BY (rows with equal date_time come in any order)
ListAll(rs) ==
    LET n == Len(rs)
        perms == {p \in [1..n -> 1..n] : \A i, j \in 1..n : i # j => p[i] # p[j]}
        sorted == {p \in perms : \A i \in 1..(n - 1) :
                      OrderByDesc(rs[p[i]].date_time, rs[p[i + 1]].date_time)}
    IN  {[i \in 1..n |-> Entry(rs[p[i]])] : p \in sorted}

\* ------------------------------------------------------------- get_db
\* getattr(g, '_database', None) in the application context of slot u
getattr_g_global(u) ==
    IF \E v \in Slots : g[v] # None
    THEN g[CHOOSE v \in Slots : g[v] # None]
    ELSE None
getattr_g(u) == g[u]

\* what a call of get_db in slot u may do
GetDbOutcomes(u) ==
    IF getattr_g(u) # None THEN {"ok"}
    ELSE IF DATABASE_URL
         THEN IF ~psycopg2 THEN {DriverMissing}
              ELSE {"ok", ConnectionLost, NoRowFactory}
         ELSE {"ok", ConnectionLost}

\* a new connection object: distinct from every object still open or referenced
NewConnection ==
    LET live == open \cup {g[v] : v \in Slots} \cup {db[v] : v \in Slots}
    IN  CHOOSE c \in 1..(Cardinality(live) + 1) : c \notin live

\* the connection get_db returns when it returns
get_db_result(u) == IF getattr_g(u) # None THEN getattr_g(u) ELSE NewConnection

\* get_db() with outcome o: g._database is assigned as soon as connect returns
get_db(u, o) ==
    IF getattr_g(u) # None
    THEN /\ db' = [db EXCEPT ![u] = get_db_result(u)]
         /\ UNCHANGED <<g, open>>
    ELSE IF o \in {ConnectionLost, DriverMissing}
    THEN UNCHANGED <<g, db, open>>
    ELSE /\ open' = open \cup {get_db_result(u)}
         /\ g' = [g EXCEPT ![u] = get_db_result(u)]
         /\ db' = [db EXCEPT ![u] = IF o = "ok" THEN get_db_result(u) ELSE None]

\* close_connection(exception): the teardown hook
close_connection_on_success(u, exception) ==
    IF getattr_g(u) # None /\ ~exception THEN open \ {getattr_g(u)} ELSE open
close_connection(u, exception) ==
    IF getattr_g(u) # None THEN open \ {getattr_g(u)} ELSE open

\* --------------------------------------------------------------- Init
\* a process not yet started, on a database that was never initialised
Init ==
    /\ DATABASE_URL \in BOOLEAN
    /\ psycopg2 \in BOOLEAN
    /\ proc = "stopped"
    /\ tableExists = FALSE
    /\ columns = "none"
    /\ rows = <<>>
    /\ clock = ClockStart
    /\ pc = [u \in Slots |-> "idle"]
    /\ method = [u \in Slots |-> "none"]
    /\ data = [u \in Slots |-> NoPayload]
    /\ g = [u \in Slots |-> None]
    /\ db = [u \in Slots |-> None]
    /\ timestamp = [u \in Slots |-> <<>>]
    /\ pending = [u \in Slots |-> <<>>]
    /\ resp = [u \in Slots |-> NoResp]
    /\ open = {}

\* the wall clock advances
Tick ==
    /\ clock < ClockStart + MaxTicks
    /\ clock' = clock + 1
    /\ UNCHANGED <<config, proc, store, pc, method, data, g, db, timestamp,
                   pending, resp, open>>

\* the application context of slot u is popped: the teardown hook runs (a
\* closed connection loses its open transaction), then g goes with the context
PopContext(u) ==
    /\ open' = close_connection(u, resp[u].kind = "exception")
    /\ pending' = [pending EXCEPT ![u] =
                      IF g[u] \in open' THEN pending[u] ELSE <<>>]
    /\ pc' = [pc EXCEPT ![u] = "idle"]
    /\ method' = [method EXCEPT ![u] = "none"]
    /\ g' = [g EXCEPT ![u] = None]
    /\ db' = [db EXCEPT ![u] = None]
    /\ resp' = [resp EXCEPT ![u] = NoResp]

\* the handler of slot u returns or raises r: its locals are gone
Return(u, r) ==
    /\ pc' = [pc EXCEPT ![u] = "done"]
    /\ resp' = [resp EXCEPT ![u] = r]
    /\ data' = [data EXCEPT ![u] = NoPayload]
    /\ timestamp' = [timestamp EXCEPT ![u] = <<>>]

\* ------------------------------------------------------------ startup
\* `python server.py`: __name__ == '__main__', the startup block is entered
StartMain ==
    /\ proc \in {"stopped", "aborted"}
    /\ proc' = "startup"
    /\ pc' = [pc EXCEPT ![0] = "handler"]
    /\ method' = [method EXCEPT ![0] = "init"]
    /\ UNCHANGED <<config, store, clock, data, g, db, timestamp, pending, resp,
                   open>>

\* the module is imported by a WSGI server: the startup block is skipped
StartWsgi ==
    /\ proc \in {"stopped", "aborted"}
    /\ proc' = "serving"
    /\ UNCHANGED <<config, store, clock, pc, method, data, g, db, timestamp,
                   pending, resp, open>>

\* init_db(get_db()): the argument is evaluated, then the DDL runs and commits
InitDb ==
    /\ proc = "startup"
    /\ pc[0] = "handler"
    /\ \E o \in GetDbOutcomes(0), fault \in BOOLEAN :
         /\ get_db(0, o)
         /\ LET st == InitDbStatement
                err == IF o # "ok" THEN o
                       ELSE IF fault THEN ConnectionLost
                       ELSE st.error
            IN  /\ Return(0, IF err = "" THEN NoResp ELSE Raised(500, err))
                /\ tableExists' = IF err = "" THEN st.tableExists ELSE tableExists
                /\ columns' = IF err = "" THEN st.columns ELSE columns
    /\ UNCHANGED <<config, proc, rows, clock, method, pending>>

\* the with block is left: the context is popped; then app.run() serves, or
\* the exception ends the process
StartupExit ==
    /\ proc = "startup"
    /\ pc[0] = "done"
    /\ PopContext(0)
    /\ proc' = IF resp[0].kind = "exception" THEN "aborted" ELSE "serving"
    /\ UNCHANGED <<config, store, clock, data, timestamp>>

\* the serving process exits between requests
Stop ==
    /\ proc = "serving"
    /\ \A u \in Slots : pc[u] = "idle"
    /\ proc' = "stopped"
    /\ UNCHANGED <<config, store, clock, pc, method, data, g, db, timestamp,
                   pending, resp, open>>

\* ----------------------------------------------------------- requests
\* the POST requests in flight
Posting == {v \in Threads : method[v] = "POST"}

\* POST /api/scores arrives on thread u; save_score, lines 86-90:
\* request.json, get_db(), db.cursor(), the timestamp
SaveEnter(u) ==
    /\ proc = "serving"
    /\ pc[u] = "idle"
    /\ Len(rows) + Cardinality(Posting) < MaxRows
    /\ method' = [method EXCEPT ![u] = "POST"]
    /\ \E d \in Payloads, o \in GetDbOutcomes(u), fault \in BOOLEAN :
         IF d.kind = "not_json"
         THEN /\ Return(u, Raised(400, "BadRequest"))
              /\ UNCHANGED <<g, db, open>>
         ELSE /\ get_db(u, o)
              /\ IF o # "ok" \/ fault
                 THEN Return(u, Raised(500, IF o # "ok" THEN o ELSE ConnectionLost))
                 ELSE /\ data' = [data EXCEPT ![u] = d]
                      /\ timestamp' = [timestamp EXCEPT ![u] = Strftime(Now)]
                      /\ pc' = [pc EXCEPT ![u] = "save_try"]
                      /\ UNCHANGED resp
    /\ UNCHANGED <<config, proc, store, clock, pending>>

\* save_score, lines 93-104: the INSERT, inside the try
SaveExecute(u) ==
    /\ pc[u] = "save_try"
    /\ \E fault \in BOOLEAN :
         LET err == InsertError(data[u], fault)
         IN  IF err # ""
             THEN /\ Return(u, ServerError(err))
                  /\ UNCHANGED pending
             ELSE /\ pending' = [pending EXCEPT ![u] =
                          <<NewRow(InsertParams(data[u], timestamp[u]))>>]
                  /\ pc' = [pc EXCEPT ![u] = "save_commit"]
                  /\ UNCHANGED <<resp, data, timestamp>>
    /\ UNCHANGED <<config, proc, store, clock, method, g, db, open>>

\* save_score, lines 105-108: db.commit() and the response
SaveCommit(u) ==
    /\ pc[u] = "save_commit"
    /\ \E fault \in BOOLEAN :
         IF fault
         THEN /\ Return(u, ServerError(ConnectionLost))
              /\ UNCHANGED <<rows, pending>>
         ELSE /\ rows' = Commit(rows, pending[u])
              /\ pending' = [pending EXCEPT ![u] = <<>>]
              /\ Return(u, Saved)
    /\ UNCHANGED <<config, proc, tableExists, columns, clock, method, g, db, open>>

\* GET /api/scores arrives on thread u; get_scores, lines 113-126:
\* get_db(), the SELECT, the fetch, the response
GetScores(u) ==
    /\ proc = "serving"
    /\ pc[u] = "idle"
    /\ method' = [method EXCEPT ![u] = "GET"]
    /\ \E o \in GetDbOutcomes(u), fault \in BOOLEAN, l \in ListAll(rows) :
         /\ get_db(u, o)
         /\ Return(u, IF o # "ok" THEN Raised(500, o)
                      ELSE IF fault THEN Raised(500, ConnectionLost)
                      ELSE IF ~tableExists THEN Raised(500, NoSuchTable)
                      ELSE Listing(l))
    /\ UNCHANGED <<config, proc, store, clock, pending>>

\* the handler is over: the response goes out and the context is popped
Teardown(u) ==
    /\ pc[u] = "done"
    /\ PopContext(u)
    /\ UNCHANGED <<config, proc, store, clock, data, timestamp>>

Next ==
    \/ Tick
    \/ StartMain
    \/ StartWsgi
    \/ InitDb
    \/ StartupExit
    \/ Stop
    \/ \E u \in Threads : SaveEnter(u)
    \/ \E u \in Threads : SaveExecute(u)
    \/ \E u \in Threads : SaveCommit(u)
    \/ \E u \in Threads : GetScores(u)
    \/ \E u \in Threads : Teardown(u)

Spec == Init /\ [][Next]_vars

\* ------------------------------------------------------------- claims
Range(l) == {l[i] : i \in DOMAIN l}
Count(e, l) == Cardinality({i \in DOMAIN l : l[i] = e})

Descending(l) ==
    \A i \in 1..(Len(l) - 1) : Instant(l[i].date_time) >= Instant(l[i + 1].date_time)
StrictlyDescending(l) ==
    \A i \in 1..(Len(l) - 1) : Instant(l[i].date_time) > Instant(l[i + 1].date_time)
DistinctTimes(l) ==
    \A i, j \in DOMAIN l : i # j => Instant(l[i].date_time) # Instant(l[j].date_time)

\* the handler of thread u returns or raises in this step
Returns(u) == pc[u] # "done" /\ pc'[u] = "done"

\* the configuration can connect: SQLite, or PostgreSQL with its driver
DriverOk == DATABASE_URL => psycopg2

\* the connections slot u holds
Uses(u) == {g[u], db[u]} \ {None}

C2_ListSortedDescending ==
    /\ \A u \in Threads :
         resp[u].kind = "list" =>
            /\ Descending(resp[u].records)
            /\ DistinctTimes(resp[u].records) => StrictlyDescending(resp[u].records)
    /\ \A l \in ListAll(rows) :
         /\ Descending(l)
         /\ DistinctTimes(l) => StrictlyDescending(l)

\* two records stored in the order of their instants come back reversed
C2_Witness ==
    \E u \in Threads :
       /\ resp[u].kind = "list"
       /\ Len(resp[u].records) = 2
       /\ Len(rows) = 2
       /\ Instant(rows[1].date_time) < Instant(rows[2].date_time)
       /\ Instant(resp[u].records[1].date_time) = Instant(rows[2].date_time)
       /\ Instant(resp[u].records[2].date_time) = Instant(rows[1].date_time)

(* C3: a GET on a store that never held a record is answered 200 with the   *)
(* empty sequence, in every serving process, whenever the driver is there   *)
(* and the engine raises no fault.                                           *)
C3_EmptyStoreListsEmpty ==
    \A u \in Threads :
       (/\ method[u] = "GET"
        /\ pc[u] = "done"
        /\ rows = <<>>
        /\ resp[u].detail \notin {ConnectionLost, DriverMissing, NoRowFactory})
       => resp[u] = Listing(<<>>)

(* C4: an insert that fails, anywhere from the start of save_score to its   *)
(* commit, yields a store error and leaves the committed records as they    *)
(* were; its uncommitted row is gone when the unit of work ends. Stated for *)
(* a configuration whose driver is present.                                  *)
C4_FailedInsertLeavesNoRow ==
    [][\A u \in Threads :
         /\ (DriverOk /\ method'[u] = "POST" /\ Returns(u) /\ resp'[u] # Saved)
              => (resp'[u].kind = "error" /\ rows' = rows)
         /\ (method[u] = "POST" /\ pc[u] = "done" /\ resp[u] # Saved /\ pc'[u] = "idle")
              => (rows' = rows /\ pending'[u] = <<>>)
      ]_vars

\* the half of C4 that save_score keeps: the committed records change only
\* in the commit of a POST that is answered 201, and by that one row
RowsChangeOnlyBySavedInsert ==
    [][rows' # rows =>
          \E u \in Threads :
             /\ pc[u] = "save_commit"
             /\ resp'[u] = Saved
             /\ rows' = Commit(rows, pending[u])
             /\ Len(rows') = Len(rows) + 1
      ]_vars

(* C5: a POST that does not save ends with status 500 and the JSON error    *)
(* body of the except clause; nothing leaves save_score as an exception.    *)
(* Stated for a configuration whose driver is present.                       *)
C5_InsertFaultIsServerError ==
    \A u \in Threads :
       (DriverOk /\ method[u] = "POST" /\ pc[u] = "done" /\ resp[u] # Saved)
       => (resp[u].status = 500 /\ resp[u].kind = "error")

(* C6: a GET that fails hands its caller a store error; nothing leaves      *)
(* get_scores as an exception. Stated for a configuration whose driver is   *)
(* present and a database that has the table.                                *)
C6_ListFaultIsStoreError ==
    \A u \in Threads :
       (/\ DriverOk /\ tableExists
        /\ method[u] = "GET" /\ pc[u] = "done" /\ resp[u].kind # "list")
       => resp[u].kind = "error"

(* C7: with DATABASE_URL set and psycopg2 missing, no process serves and   *)
(* reports the missing driver while it handles a request.                    *)
C7_MissingDriverFailsAtStartup ==
    (DATABASE_URL /\ ~psycopg2) =>
       ~(proc = "serving" /\ \E u \in Threads : resp[u].detail = DriverMissing)

(* C8: every open connection belongs to a unit of work that is still in    *)
(* progress: once a unit of work has ended, nothing it opened is open.       *)
C8_ConnectionsClosedAtEnd ==
    \A c \in open : \E u \in Slots : pc[u] # "idle" /\ g[u] = c

\* records were saved, every unit of work has ended, and nothing is open
C8_Witness ==
    /\ proc = "serving"
    /\ rows # <<>>
    /\ \A u \in Slots : pc[u] = "idle"
    /\ open = {}

(* C9: init_db on a database that has the table raises nothing of its own   *)
(* and leaves the table, its columns and its rows as they were.              *)
C9_InitDbIdempotent ==
    [][(pc[0] = "handler" /\ pc'[0] = "done" /\ tableExists) =>
          /\ tableExists'
          /\ columns' = columns
          /\ rows' = rows
          /\ resp'[0].detail # TableExists
          /\ InitDbStatement.error = ""
      ]_vars

\* init_db has run without error on a table that holds records
C9_Witness ==
    /\ proc = "startup"
    /\ pc[0] = "done"
    /\ resp[0] = NoResp
    /\ tableExists
    /\ rows # <<>>

(* C10: no connection is held by two units of work; a unit that has a      *)
(* connection gets the same one from every further get_db; a unit of work   *)
(* starts with no connection of an earlier one.                              *)
C10_OwnConnectionPerUnit ==
    /\ \A u, v \in Slots : u # v => Uses(u) \cap Uses(v) = {}
    /\ \A u \in Slots : db[u] # None => db[u] = g[u]
    /\ \A u \in Slots :
         g[u] # None => (get_db_result(u) = g[u] /\ GetDbOutcomes(u) = {"ok"})
    /\ \A u \in Slots : pc[u] = "idle" => Uses(u) = {}

\* two requests in flight, each with its own open connection
C10_Witness ==
    \E u, v \in Threads :
       /\ u # v
       /\ db[u] # None /\ db[v] # None
       /\ db[u] # db[v]
       /\ {db[u], db[v]} \subseteq open

====
